---- MODULE Spec2Model ----
(***************************************************************************)
(* A model of the workflow engine (app/engine.py), its two hosts           *)
(* (app/main.py: the batch endpoint /graph/run and the streaming endpoint  *)
(* /ws/run) and the tools of app/registry.py.                              *)
(*                                                                         *)
(* Conventions.                                                            *)
(*  - A Python dict is a function whose DOMAIN is the set of present keys  *)
(*    (nodes, edges, a mapping, RUNS).  WorkflowState.data is a record     *)
(*    with one field per key the tools use; a field holds <<>> when the    *)
(*    key is absent and <<v>> when it is present with value v.             *)
(*  - Null stands for every falsy node name (None and the empty string):   *)
(*    the engine only ever tests names for truthiness (engine.py:42, 67).  *)
(*  - A str of words is the sequence of its word lengths; this keeps what  *)
(*    the tools read of it: len(), split() and " ".join().                 *)
(*  - A log message is a record: the step line f"Step {k}: Executing       *)
(*    '{name}'" keeps k and name, the other messages keep their text.      *)
(***************************************************************************)
EXTENDS Integers, Sequences, FiniteSets, TLC

VARIABLES
    nodes,              \* engine.nodes: name -> tool        (engine.py:9)
    edges,              \* engine.edges: source -> edge rule (engine.py:10)
    start_node,         \* engine.start_node                 (engine.py:11)
    last_reg,           \* observer: the rule of the latest registration call per source
    rewrote,            \* observer: some registration replaced an earlier rule
    pc,                 \* per run: position in the host handler / in run()
    payload,            \* per run: the request's initial_state
    state,              \* per run: the WorkflowState [data, history]
    current_node_name,  \* per run: local of run()
    logs,               \* per run: local of run()
    step_count,         \* per run: local of run()
    invoked,            \* per run: observer, the node names whose function was called
    sink,               \* per run: observer, the messages step_callback has delivered
    error,              \* per run: the exception that left run(), if any
    RUNS,               \* main.RUNS: run id -> record           (main.py:21)
    ws,                 \* per run: the texts sent on the websocket
    GRAPHS,             \* main.GRAPHS: graph id -> engine      (main.py:20)
    graph_id,           \* per run: the graph id the request named (main.py:50, 90);
                        \* <<>> for a run started on the engine under construction
    reply               \* observer: the last response of a REST handler

vars == <<nodes, edges, start_node, last_reg, rewrote, pc, payload, state,
          current_node_name, logs, step_count, invoked, sink, error, RUNS, ws,
          GRAPHS, graph_id, reply>>

storeVars == <<GRAPHS, graph_id, reply>>
engineVars == <<nodes, edges, start_node, last_reg, rewrote, storeVars>>
hostVars == <<RUNS, ws>>

----------------------------------------------------------------------------
(* Program constants *)

\* engine.py:40
MAX_STEPS == 50
\* registry.py:66, the length above which refine_summary asks to continue
SummaryLimit == 50
\* registry.py:31, the words summarize_chunks keeps of a chunk
WordsKept == 3
\* registry.py:31, len("...")
EllipsisLen == 3

Null == ""

\* The two requests of the model: one to /graph/run, one to /ws/run.
BatchIds == {"batch"}
StreamIds == {"stream"}
RunIds == BatchIds \cup StreamIds

\* engine.py:48, 80: `if step_callback`; only websocket_run passes one (main.py:99)
HasCallback(r) == r \in StreamIds

----------------------------------------------------------------------------
(* Strings and the tools of the registry *)

RECURSIVE SumSeq(_)
SumSeq(s) == IF s = <<>> THEN 0 ELSE Head(s) + SumSeq(Tail(s))

\* len(" ".join(words))
StrLen(words) == IF words = <<>> THEN 0 ELSE SumSeq(words) + Len(words) - 1

RECURSIVE Flatten(_)
Flatten(ss) == IF ss = <<>> THEN <<>> ELSE Head(ss) \o Flatten(Tail(ss))

Get(data, key, default) == IF data[key] = <<>> THEN default ELSE data[key][1]

EmptyStr == [isstr |-> TRUE, sentences |-> <<>>]

ToolOk(data) == [ok |-> TRUE, data |-> data]
ToolRaises(data) == [ok |-> FALSE, data |-> data]

\* registry.py:12-21.  raw_text.split('.') raises AttributeError when the
\* caller's "text" is not a str.
split_text(data) ==
    LET raw_text == Get(data, "text", EmptyStr)
    IN  IF ~raw_text.isstr
        THEN ToolRaises(data)
        ELSE ToolOk([data EXCEPT !.chunks =
                 << SelectSeq(raw_text.sentences, LAMBDA s : s # <<>>) >>])

\* registry.py:31: " ".join(words[:3]) + "..."
ShortVersion(words) ==
    LET kept == SubSeq(words, 1, IF Len(words) < WordsKept THEN Len(words) ELSE WordsKept)
    IN  IF kept = <<>>
        THEN <<EllipsisLen>>
        ELSE [kept EXCEPT ![Len(kept)] = @ + EllipsisLen]

\* registry.py:23-36
summarize_chunks(data) ==
    LET chunks == Get(data, "chunks", <<>>)
    IN  ToolOk([data EXCEPT !.chunk_summaries =
             << [i \in 1..Len(chunks) |-> ShortVersion(chunks[i])] >>])

\* registry.py:38-48
merge_summaries(data) ==
    LET summaries == Get(data, "chunk_summaries", <<>>)
        full_summary == Flatten(summaries)
    IN  ToolOk([data EXCEPT !.current_summary = <<full_summary>>,
                            !.summary_length = <<StrLen(full_summary)>>])

\* registry.py:66-70
StatusFor(new_summary) ==
    IF StrLen(new_summary) > SummaryLimit THEN "continue" ELSE "stop"

\* a refinement that leaves the words as they are
refine_summary_keeps_words(data) ==
    LET current == Get(data, "current_summary", <<>>)
        words == current
    IN  ToolOk([data EXCEPT !.current_summary = <<words>>,
                            !.summary_length = <<StrLen(words)>>,
                            !.status = <<StatusFor(words)>>])

\* registry.py:50-73
refine_summary(data) ==
    LET current == Get(data, "current_summary", <<>>)
        words == IF Len(current) > 0 THEN SubSeq(current, 1, Len(current) - 1) ELSE current
    IN  ToolOk([data EXCEPT !.current_summary = <<words>>,
                            !.summary_length = <<StrLen(words)>>,
                            !.status = <<StatusFor(words)>>])

\* registry.py:3-10: the names the decorator registered
TOOL_REGISTRY == {"split_text", "summarize_chunks", "merge_summaries", "refine_summary"}

\* engine.py:56-61: node_func(state)
NodeApply(tool, data) ==
    CASE tool = "split_text"       -> split_text(data)
      [] tool = "summarize_chunks" -> summarize_chunks(data)
      [] tool = "merge_summaries"  -> merge_summaries(data)
      [] tool = "refine_summary"   -> refine_summary(data)

----------------------------------------------------------------------------
(* Inputs *)

NoData == [text |-> <<>>, chunks |-> <<>>, chunk_summaries |-> <<>>,
           current_summary |-> <<>>, summary_length |-> <<>>, status |-> <<>>]

\* {}
EmptyPayload == NoData
\* {"text": 5}: a value split_text cannot split
BadTextPayload == [NoData EXCEPT !.text = <<[isstr |-> FALSE, sentences |-> <<>>]>>]
\* a summary that stays above SummaryLimit for more than MAX_STEPS refinements
LongPayload ==
    [NoData EXCEPT !.current_summary =
        << [i \in 1..(MAX_STEPS + 2) |-> SummaryLimit + 1] >>]
\* {"text": "Hello world. Short.", "current_summary": three words of 30, "status": "continue"}
ShortPayload ==
    [NoData EXCEPT !.text = <<[isstr |-> TRUE, sentences |-> << <<5, 5>>, <<5>> >>]>>,
                   !.current_summary = << <<30, 30, 30>> >>,
                   !.status = <<"continue">>]

Payloads == {EmptyPayload, BadTextPayload, LongPayload, ShortPayload}

\* Node names of the graphs built here: two registered tools and a name
\* that is in no registry.
Names == {"split_text", "refine_summary", "ghost"}
Sources == {"split_text", "refine_summary"}
DirectTargets == Names

\* What engine.edges holds for a source (engine.py:17, 20-24)
Direct(target) ==
    [type |-> "direct", target |-> target, key |-> "", mapping |-> <<>>]
Conditional(key, mapping) ==
    [type |-> "conditional", target |-> Null, key |-> key, mapping |-> mapping]

\* main.py:126, the demo's rule
DemoMapping == ("continue" :> "refine_summary") @@ ("stop" :> Null)
AlwaysMapping == ("continue" :> "refine_summary") @@ ("stop" :> "refine_summary")
GhostMapping == ("stop" :> "ghost")
ContinueMapping == ("continue" :> "refine_summary")

CondRules == { <<"status", DemoMapping>>, <<"status", AlwaysMapping>>,
               <<"status", GhostMapping>>, <<"chunks", ContinueMapping>> }

----------------------------------------------------------------------------
(* Messages *)

\* engine.py:43
StepMsg(k, name) == [text |-> "Step", step |-> k, node |-> name]
Plain(text) == [text |-> text, step |-> 0, node |-> Null]
\* engine.py:78
FinishMsg == Plain("Execution Finished")
\* main.py:96, 101, 103
ConnectedMsg == Plain("--- Connected to Graph ---")
CompleteMsg == Plain("--- Run Complete ---")
FinalStateMsg == Plain("final_state")
\* main.py:108; engine.py:54
ErrorMsg(e) == [text |-> "Error", step |-> 0, node |-> e.node]

NoError == [kind |-> "none", node |-> Null]
\* engine.py:54
NodeNotFound(name) == [kind |-> "ValueError", node |-> name]
\* an exception raised inside a node function
NodeError(name) == [kind |-> "NodeError", node |-> name]
\* engine.py:74: dict.get on an unhashable value
Unhashable == [kind |-> "TypeError", node |-> Null]
\* main.py:94: send_text to a client that is gone
Disconnect == [kind |-> "WebSocketDisconnect", node |-> Null]

----------------------------------------------------------------------------
(* The graph definition: engine.py:8-27 *)

Put(dict, key, value) == (key :> value) @@ dict

\* engine.py:8-11: a WorkflowEngine as a value
NewEngine == [nodes |-> <<>>, edges |-> <<>>, start_node |-> Null]
\* engine.py:13-27 on an engine value
AddNode(eng, name, func) == [eng EXCEPT !.nodes = Put(@, name, func)]
AddEdge(eng, source, target) == [eng EXCEPT !.edges = Put(@, source, Direct(target))]
AddConditionalEdge(eng, source, condition_key, mapping) ==
    [eng EXCEPT !.edges = Put(@, source, Conditional(condition_key, mapping))]
SetEntryPoint(eng, node_name) == [eng EXCEPT !.start_node = node_name]

\* main.py:115
DemoId == "demo-summary"

\* main.py:116-127
DemoEngine ==
    LET e0 == NewEngine
        e1 == AddNode(e0, "split_text", "split_text")
        e2 == AddNode(e1, "summarize_chunks", "summarize_chunks")
        e3 == AddNode(e2, "merge_summaries", "merge_summaries")
        e4 == AddNode(e3, "refine_summary", "refine_summary")
        e5 == AddEdge(e4, "split_text", "summarize_chunks")
        e6 == AddEdge(e5, "summarize_chunks", "merge_summaries")
        e7 == AddEdge(e6, "merge_summaries", "refine_summary")
        e8 == AddConditionalEdge(e7, "refine_summary", "status", DemoMapping)
    IN  SetEntryPoint(e8, "split_text")

\* main.py:113-129: GRAPHS after startup
preload_demo_graph == (DemoId :> DemoEngine)

\* no REST handler has answered yet
NoReply == [op |-> "none"]

\* engine.py:29: self, the engine a run executes
EngineOf(r) ==
    IF graph_id[r] = <<>>
    THEN [nodes |-> nodes, edges |-> edges, start_node |-> start_node]
    ELSE GRAPHS[graph_id[r][1]]

Init ==
    /\ nodes = <<>>
    /\ edges = <<>>
    /\ start_node = Null
    /\ last_reg = <<>>
    /\ rewrote = FALSE
    /\ pc = [r \in RunIds |-> "idle"]
    /\ payload = [r \in RunIds |-> NoData]
    /\ state = [r \in RunIds |-> [data |-> NoData, history |-> <<>>]]
    /\ current_node_name = [r \in RunIds |-> Null]
    /\ logs = [r \in RunIds |-> <<>>]
    /\ step_count = [r \in RunIds |-> 0]
    /\ invoked = [r \in RunIds |-> <<>>]
    /\ sink = [r \in RunIds |-> <<>>]
    /\ error = [r \in RunIds |-> NoError]
    /\ RUNS = <<>>
    /\ ws = [r \in RunIds |-> <<>>]
    /\ GRAPHS = preload_demo_graph
    /\ graph_id = [r \in RunIds |-> <<>>]
    /\ reply = NoReply

\* A graph is built before any request runs against it (main.py:27-41).
Building == \A r \in RunIds : pc[r] = "idle"

runVars == <<pc, payload, state, current_node_name, logs, step_count,
             invoked, sink, error>>

\* engine.py:13-14
add_node(name, func) ==
    /\ Building
    /\ nodes' = Put(nodes, name, func)
    /\ UNCHANGED <<edges, start_node, last_reg, rewrote, runVars, hostVars, storeVars>>

\* a registration that leaves an earlier rule of the source in place
SetEdgeKeepFirst(es, source, rule) ==
    IF source \in DOMAIN es THEN es ELSE Put(es, source, rule)

\* engine.py:17, 20: self.edges[source] = ...
SetEdge(es, source, rule) == Put(es, source, rule)

Register(source, rule) ==
    /\ Building
    /\ edges' = SetEdge(edges, source, rule)
    /\ last_reg' = Put(last_reg, source, rule)
    /\ rewrote' = (rewrote \/ source \in DOMAIN edges)
    /\ UNCHANGED <<nodes, start_node, runVars, hostVars, storeVars>>

\* engine.py:16-17
add_edge(source, target) == Register(source, Direct(target))

\* engine.py:19-24
add_conditional_edge(source, condition_key, mapping) ==
    Register(source, Conditional(condition_key, mapping))

\* engine.py:26-27
set_entry_point(node_name) ==
    /\ Building
    /\ start_node' = node_name
    /\ UNCHANGED <<nodes, edges, last_reg, rewrote, runVars, hostVars, storeVars>>

----------------------------------------------------------------------------
(* The hosts' request handlers up to the call of run() *)

Set(f, r, v) == [f EXCEPT ![r] = v]

\* main.py:52
NewRun == [status |-> "running", state |-> <<>>, logs |-> <<>>, error |-> <<>>]

\* main.py:44-52, 65-66 (batch) and main.py:76-96 (streaming)
Request(r, initial_state) ==
    /\ pc[r] = "idle"
    /\ pc' = Set(pc, r, "init")
    /\ payload' = Set(payload, r, initial_state)
    /\ IF r \in BatchIds
       THEN /\ RUNS' = Put(RUNS, r, NewRun)
            /\ ws' = ws
       ELSE /\ ws' = Set(ws, r, Append(ws[r], ConnectedMsg))
            /\ RUNS' = RUNS
    /\ UNCHANGED <<engineVars, state, current_node_name, logs, step_count,
                   invoked, sink, error>>

----------------------------------------------------------------------------
(* WorkflowEngine.run: engine.py:29-83 *)

\* an initialisation that keeps the log in one list shared by all runs
RunInitSharedLog(r) ==
    /\ pc[r] = "init"
    /\ state' = Set(state, r, [data |-> payload[r], history |-> <<>>])
    /\ current_node_name' = Set(current_node_name, r, EngineOf(r).start_node)
    /\ logs' = [q \in RunIds |-> <<>>]
    /\ step_count' = Set(step_count, r, 0)
    /\ pc' = Set(pc, r, "loop")
    /\ UNCHANGED <<engineVars, hostVars, payload, invoked, sink, error>>

\* engine.py:35-40
RunInit(r) ==
    /\ pc[r] = "init"
    /\ state' = Set(state, r, [data |-> payload[r], history |-> <<>>])
    /\ current_node_name' = Set(current_node_name, r, EngineOf(r).start_node)
    /\ logs' = Set(logs, r, <<>>)
    /\ step_count' = Set(step_count, r, 0)
    /\ pc' = Set(pc, r, "loop")
    /\ UNCHANGED <<engineVars, hostVars, payload, invoked, sink, error>>

\* loop guards that get the step bound wrong
LoopGuardNoBound(name, count) == name # Null
LoopGuardInclusive(name, count) == name # Null /\ count <= MAX_STEPS
LoopGuardShort(name, count) == name # Null /\ count < MAX_STEPS - 1

\* a loop guard that does not test the name
LoopGuardNoNameTest(name, count) == count < MAX_STEPS

\* engine.py:42
LoopGuard(name, count) == name # Null /\ count < MAX_STEPS

\* a loop body that never calls step_callback
AfterLogNoSink(r) == "call"

\* engine.py:48: where the loop body goes after logging
AfterLog(r) == IF HasCallback(r) THEN "deliver" ELSE "call"

\* a step line numbered from zero
LogMsgFromZero(r) == StepMsg(step_count[r], current_node_name[r])

\* engine.py:43: log_msg
LogMsg(r) == StepMsg(step_count[r] + 1, current_node_name[r])

Raise(r, e) ==
    /\ error' = Set(error, r, e)
    /\ pc' = Set(pc, r, "raised")

\* a loop head that resolves the node before it logs the step
LoopHeadResolveFirst(r) ==
    /\ pc[r] = "loop"
    /\ IF ~LoopGuard(current_node_name[r], step_count[r])
       THEN /\ pc' = Set(pc, r, "finish")
            /\ UNCHANGED <<logs, error>>
       ELSE IF current_node_name[r] \notin DOMAIN EngineOf(r).nodes
       THEN /\ Raise(r, NodeNotFound(current_node_name[r]))
            /\ logs' = logs
       ELSE /\ logs' = Set(logs, r, Append(logs[r], LogMsg(r)))
            /\ pc' = Set(pc, r, AfterLog(r))
            /\ error' = error
    /\ UNCHANGED <<engineVars, hostVars, payload, state, current_node_name,
                   step_count, invoked, sink>>

\* engine.py:42-44
LoopHead(r) ==
    /\ pc[r] = "loop"
    /\ IF LoopGuard(current_node_name[r], step_count[r])
       THEN /\ logs' = Set(logs, r, Append(logs[r], LogMsg(r)))
            /\ pc' = Set(pc, r, AfterLog(r))
       ELSE /\ logs' = logs
            /\ pc' = Set(pc, r, "finish")
    /\ UNCHANGED <<engineVars, hostVars, payload, state, current_node_name,
                   step_count, invoked, sink, error>>

\* main.py:93-94: stream_log; send_text fails when the client is gone
SinkOutcomes == {"sent", "disconnected"}

\* a streaming branch that logs the step a second time
DeliverRelog(r) ==
    /\ pc[r] = "deliver"
    /\ \E outcome \in SinkOutcomes :
         IF outcome = "sent"
         THEN /\ sink' = Set(sink, r, Append(sink[r], LogMsg(r)))
              /\ ws' = Set(ws, r, Append(ws[r], LogMsg(r)))
              /\ logs' = Set(logs, r, Append(logs[r], LogMsg(r)))
              /\ pc' = Set(pc, r, "sleep")
              /\ error' = error
         ELSE /\ Raise(r, Disconnect)
              /\ UNCHANGED <<sink, ws, logs>>
    /\ UNCHANGED <<engineVars, RUNS, payload, state, current_node_name,
                   step_count, invoked>>

\* a streaming branch that notes the failed delivery and goes on
DeliverAndGoOn(r) ==
    /\ pc[r] = "deliver"
    /\ \E outcome \in SinkOutcomes :
         IF outcome = "sent"
         THEN /\ sink' = Set(sink, r, Append(sink[r], LogMsg(r)))
              /\ ws' = Set(ws, r, Append(ws[r], LogMsg(r)))
              /\ pc' = Set(pc, r, "sleep")
              /\ error' = error
         ELSE /\ error' = Set(error, r, Disconnect)
              /\ pc' = Set(pc, r, "sleep")
              /\ UNCHANGED <<sink, ws>>
    /\ UNCHANGED <<engineVars, RUNS, payload, state, current_node_name, logs,
                   step_count, invoked>>

\* engine.py:48-49
Deliver(r) ==
    /\ pc[r] = "deliver"
    /\ \E outcome \in SinkOutcomes :
         IF outcome = "sent"
         THEN /\ sink' = Set(sink, r, Append(sink[r], LogMsg(r)))
              /\ ws' = Set(ws, r, Append(ws[r], LogMsg(r)))
              /\ pc' = Set(pc, r, "sleep")
              /\ error' = error
         ELSE /\ Raise(r, Disconnect)
              /\ UNCHANGED <<sink, ws>>
    /\ UNCHANGED <<engineVars, RUNS, payload, state, current_node_name, logs,
                   step_count, invoked>>

\* engine.py:50
Pace(r) ==
    /\ pc[r] = "sleep"
    /\ pc' = Set(pc, r, "call")
    /\ UNCHANGED <<engineVars, hostVars, payload, state, current_node_name,
                   logs, step_count, invoked, sink, error>>

\* a resolution that ends the run quietly when the node is missing
CallSkipMissing(r) ==
    /\ pc[r] = "call"
    /\ IF current_node_name[r] \notin DOMAIN EngineOf(r).nodes
       THEN /\ pc' = Set(pc, r, "finish")
            /\ invoked' = invoked
       ELSE /\ invoked' = Set(invoked, r, Append(invoked[r], current_node_name[r]))
            /\ pc' = Set(pc, r, "in_node")
    /\ UNCHANGED <<engineVars, hostVars, payload, state, current_node_name,
                   logs, step_count, sink, error>>

\* engine.py:53-61, up to the call of the node function
Call(r) ==
    /\ pc[r] = "call"
    /\ IF current_node_name[r] \notin DOMAIN EngineOf(r).nodes
       THEN /\ Raise(r, NodeNotFound(current_node_name[r]))
            /\ invoked' = invoked
       ELSE /\ invoked' = Set(invoked, r, Append(invoked[r], current_node_name[r]))
            /\ pc' = Set(pc, r, "in_node")
            /\ error' = error
    /\ UNCHANGED <<engineVars, hostVars, payload, state, current_node_name,
                   logs, step_count, sink>>

\* an invocation that swallows the node's exception and goes on
NodeReturnSwallow(r) ==
    /\ pc[r] = "in_node"
    /\ LET name == current_node_name[r]
           res == NodeApply(EngineOf(r).nodes[name], state[r].data)
       IN  /\ state' = Set(state, r, [data |-> res.data,
                                      history |-> Append(state[r].history, name)])
           /\ pc' = Set(pc, r, "route")
    /\ UNCHANGED <<engineVars, hostVars, payload, current_node_name, logs,
                   step_count, invoked, sink, error>>

\* an invocation that leaves history as it was
NodeReturnNoAppend(r) ==
    /\ pc[r] = "in_node"
    /\ LET name == current_node_name[r]
           res == NodeApply(EngineOf(r).nodes[name], state[r].data)
       IN  IF res.ok
           THEN /\ state' = Set(state, r, [data |-> res.data,
                                          history |-> state[r].history])
                /\ pc' = Set(pc, r, "route")
                /\ error' = error
           ELSE /\ Raise(r, NodeError(name))
                /\ state' = state
    /\ UNCHANGED <<engineVars, hostVars, payload, current_node_name, logs,
                   step_count, invoked, sink>>

\* engine.py:58-63: the node function returns or raises; history is appended
NodeReturn(r) ==
    /\ pc[r] = "in_node"
    /\ LET name == current_node_name[r]
           res == NodeApply(EngineOf(r).nodes[name], state[r].data)
       IN  IF res.ok
           THEN /\ state' = Set(state, r, [data |-> res.data,
                                          history |-> Append(state[r].history, name)])
                /\ pc' = Set(pc, r, "route")
                /\ error' = error
           ELSE /\ Raise(r, NodeError(name))
                /\ state' = state
    /\ UNCHANGED <<engineVars, hostVars, payload, current_node_name, logs,
                   step_count, invoked, sink>>

\* The keys of data whose values are lists (registry.py:19, 34)
ListKeys == {"chunks", "chunk_summaries"}
\* The keys of data whose values the mappings of this model can hold
StrKeys == {"status"}

\* engine.py:73-74: edge_config["mapping"].get(state.data.get(check_key))
MappingGet(mapping, data, check_key) ==
    IF data[check_key] = <<>>
    THEN [ok |-> TRUE, next |-> Null]
    ELSE IF check_key \in ListKeys
    THEN [ok |-> FALSE, next |-> Null]
    ELSE IF check_key \in StrKeys /\ data[check_key][1] \in DOMAIN mapping
    THEN [ok |-> TRUE, next |-> mapping[data[check_key][1]]]
    ELSE [ok |-> TRUE, next |-> Null]

\* engine.py:66-74
NextNode(es, name, data) ==
    IF name \notin DOMAIN es
    THEN [ok |-> TRUE, next |-> Null]
    ELSE IF es[name].type = "direct"
    THEN [ok |-> TRUE, next |-> es[name].target]
    ELSE MappingGet(es[name].mapping, data, es[name].key)

\* edge logic that takes the rule out of the engine as it follows it
RoutePopsEdge(r) ==
    /\ pc[r] = "route"
    /\ LET res == NextNode(EngineOf(r).edges, current_node_name[r], state[r].data)
       IN  IF res.ok
           THEN /\ current_node_name' = Set(current_node_name, r, res.next)
                /\ step_count' = Set(step_count, r, step_count[r] + 1)
                /\ pc' = Set(pc, r, "loop")
                /\ error' = error
           ELSE /\ Raise(r, Unhashable)
                /\ UNCHANGED <<current_node_name, step_count>>
    /\ edges' = [s \in DOMAIN edges \ {current_node_name[r]} |-> edges[s]]
    /\ UNCHANGED <<nodes, start_node, last_reg, rewrote, storeVars, hostVars,
                   payload, state, logs, invoked, sink>>

\* engine.py:65-76
Route(r) ==
    /\ pc[r] = "route"
    /\ LET res == NextNode(EngineOf(r).edges, current_node_name[r], state[r].data)
       IN  IF res.ok
           THEN /\ current_node_name' = Set(current_node_name, r, res.next)
                /\ step_count' = Set(step_count, r, step_count[r] + 1)
                /\ pc' = Set(pc, r, "loop")
                /\ error' = error
           ELSE /\ Raise(r, Unhashable)
                /\ UNCHANGED <<current_node_name, step_count>>
    /\ UNCHANGED <<engineVars, hostVars, payload, state, logs, invoked, sink>>

\* engine.py:78-80
Finish(r) ==
    /\ pc[r] = "finish"
    /\ logs' = Set(logs, r, Append(logs[r], FinishMsg))
    /\ pc' = Set(pc, r, IF HasCallback(r) THEN "deliver_finish" ELSE "return")
    /\ UNCHANGED <<engineVars, hostVars, payload, state, current_node_name,
                   step_count, invoked, sink, error>>

\* engine.py:80-81
DeliverFinish(r) ==
    /\ pc[r] = "deliver_finish"
    /\ \E outcome \in SinkOutcomes :
         IF outcome = "sent"
         THEN /\ sink' = Set(sink, r, Append(sink[r], FinishMsg))
              /\ ws' = Set(ws, r, Append(ws[r], FinishMsg))
              /\ pc' = Set(pc, r, "return")
              /\ error' = error
         ELSE /\ Raise(r, Disconnect)
              /\ UNCHANGED <<sink, ws>>
    /\ UNCHANGED <<engineVars, RUNS, payload, state, current_node_name, logs,
                   step_count, invoked>>

\* engine.py:42-83 run to its end without suspension, with a sink that
\* does not fail: what run() returns or raises when it executes alone
RECURSIVE SoloLoop(_, _, _, _, _, _)
SoloLoop(eng, name, count, data, history, log) ==
    IF ~LoopGuard(name, count)
    THEN [error |-> NoError, data |-> data, history |-> history,
          logs |-> Append(log, FinishMsg)]
    ELSE LET logged == Append(log, StepMsg(count + 1, name))
         IN  IF name \notin DOMAIN eng.nodes
             THEN [error |-> NodeNotFound(name), data |-> data, history |-> history,
                   logs |-> logged]
             ELSE LET res == NodeApply(eng.nodes[name], data)
                  IN  IF ~res.ok
                      THEN [error |-> NodeError(name), data |-> data,
                            history |-> history, logs |-> logged]
                      ELSE LET visited == Append(history, name)
                               nxt == NextNode(eng.edges, name, res.data)
                           IN  IF ~nxt.ok
                               THEN [error |-> Unhashable, data |-> res.data,
                                     history |-> visited, logs |-> logged]
                               ELSE SoloLoop(eng, nxt.next, count + 1, res.data,
                                             visited, logged)

\* engine.py:29-83
Solo(eng, initial_payload) ==
    SoloLoop(eng, eng.start_node, 0, initial_payload, <<>>, <<>>)

----------------------------------------------------------------------------
(* The hosts after run(): main.py:57-63 (batch), main.py:99-110 (streaming) *)

SetField(r, field, value) == RUNS' = Set(RUNS, r, [RUNS[r] EXCEPT ![field] = value])

hostFrame == <<engineVars, payload, state, current_node_name, logs,
               step_count, invoked, sink, error>>

\* main.py:57-58
BatchCompleted(r) ==
    /\ r \in BatchIds /\ pc[r] = "return"
    /\ SetField(r, "status", "completed")
    /\ pc' = Set(pc, r, "store_state")
    /\ UNCHANGED <<hostFrame, ws>>

\* main.py:59
BatchStoreState(r) ==
    /\ pc[r] = "store_state"
    /\ SetField(r, "state", <<state[r]>>)
    /\ pc' = Set(pc, r, "store_logs")
    /\ UNCHANGED <<hostFrame, ws>>

\* main.py:60
BatchStoreLogs(r) ==
    /\ pc[r] = "store_logs"
    /\ SetField(r, "logs", logs[r])
    /\ pc' = Set(pc, r, "done")
    /\ UNCHANGED <<hostFrame, ws>>

\* an exception handler that leaves the status as it was
BatchFailedNoStatus(r) ==
    /\ r \in BatchIds /\ pc[r] = "raised"
    /\ RUNS' = RUNS
    /\ pc' = Set(pc, r, "store_error")
    /\ UNCHANGED <<hostFrame, ws>>

\* main.py:61-62
BatchFailed(r) ==
    /\ r \in BatchIds /\ pc[r] = "raised"
    /\ SetField(r, "status", "failed")
    /\ pc' = Set(pc, r, "store_error")
    /\ UNCHANGED <<hostFrame, ws>>

\* main.py:63
BatchStoreError(r) ==
    /\ pc[r] = "store_error"
    /\ SetField(r, "error", <<error[r]>>)
    /\ pc' = Set(pc, r, "done")
    /\ UNCHANGED <<hostFrame, ws>>

\* main.py:99-101
StreamComplete(r) ==
    /\ r \in StreamIds /\ pc[r] = "return"
    /\ ws' = Set(ws, r, Append(ws[r], CompleteMsg))
    /\ pc' = Set(pc, r, "send_state")
    /\ UNCHANGED <<hostFrame, RUNS>>

\* main.py:103
StreamFinalState(r) ==
    /\ pc[r] = "send_state"
    /\ ws' = Set(ws, r, Append(ws[r], FinalStateMsg))
    /\ pc' = Set(pc, r, "close")
    /\ UNCHANGED <<hostFrame, RUNS>>

\* main.py:105-108
StreamError(r) ==
    /\ r \in StreamIds /\ pc[r] = "raised"
    /\ ws' = IF error[r] = Disconnect
             THEN ws
             ELSE Set(ws, r, Append(ws[r], ErrorMsg(error[r])))
    /\ pc' = Set(pc, r, "close")
    /\ UNCHANGED <<hostFrame, RUNS>>

\* main.py:109-110
StreamClose(r) ==
    /\ pc[r] = "close"
    /\ pc' = Set(pc, r, "done")
    /\ UNCHANGED <<hostFrame, hostVars>>

----------------------------------------------------------------------------
(* Specifications *)

\* The steps of a request once it has arrived
RunStep(r) ==
    \/ RunInit(r)
    \/ LoopHead(r)
    \/ Deliver(r)
    \/ Pace(r)
    \/ Call(r)
    \/ NodeReturn(r)
    \/ Route(r)
    \/ Finish(r)
    \/ DeliverFinish(r)
    \/ BatchCompleted(r)
    \/ BatchStoreState(r)
    \/ BatchStoreLogs(r)
    \/ BatchFailed(r)
    \/ BatchStoreError(r)
    \/ StreamComplete(r)
    \/ StreamFinalState(r)
    \/ StreamError(r)
    \/ StreamClose(r)

Steps == \E r \in RunIds : RunStep(r)

\* The calls that build a graph, as create_graph makes them (main.py:27-39)
Build ==
    \/ \E name \in Names \cap TOOL_REGISTRY : add_node(name, name)
    \/ \E source \in Sources, target \in DirectTargets : add_edge(source, target)
    \/ \E source \in Sources, rule \in CondRules :
           add_conditional_edge(source, rule[1], rule[2])
    \/ \E name \in Names : set_entry_point(name)

\* One request, to either endpoint, against the graph that was built
Next ==
    \/ Build
    \/ \E r \in RunIds, d \in Payloads : Building /\ Request(r, d)
    \/ Steps

Spec == Init /\ [][Next]_vars

\* The event loop runs a ready coroutine: a request that can take a step takes it.
FairSpec == Spec /\ WF_vars(Steps)

\* The same request sent to both endpoints, one after the other: the second
\* request carries the initial_state of the first, and is sent when the
\* first has ended with its client still connected.
MayFollow(r, d) ==
    \A q \in RunIds \ {r} : \/ pc[q] = "idle"
                            \/ pc[q] = "done" /\ payload[q] = d /\ error[q] # Disconnect

NextPair ==
    \/ Build
    \/ \E r \in RunIds, d \in Payloads : MayFollow(r, d) /\ Request(r, d)
    \/ Steps

SpecPair == Init /\ [][NextPair]_vars

\* Fifty distinct node names for direct-edge chains
ChainNames ==
    << "n01", "n02", "n03", "n04", "n05", "n06", "n07", "n08", "n09",
       "n10", "n11", "n12", "n13", "n14", "n15", "n16", "n17", "n18",
       "n19", "n20", "n21", "n22", "n23", "n24", "n25", "n26", "n27",
       "n28", "n29", "n30", "n31", "n32", "n33", "n34", "n35", "n36",
       "n37", "n38", "n39", "n40", "n41", "n42", "n43", "n44", "n45",
       "n46", "n47", "n48", "n49", "n50" >>

\* The registry's tools, bound in turn to the nodes of a chain
ChainTools == <<"split_text", "summarize_chunks", "merge_summaries", "refine_summary">>
ChainTool(i) == ChainTools[((i - 1) % Len(ChainTools)) + 1]

ChainNodes(n) == {ChainNames[i] : i \in 1..n}
Index(name) == CHOOSE i \in 1..Len(ChainNames) : ChainNames[i] = name

\* add_node(Ni, tool) for i in 1..n, add_edge(Ni, Ni+1) for i in 1..n-1,
\* set_entry_point(N1)
IsChain(n) ==
    /\ nodes = [name \in ChainNodes(n) |-> ChainTool(Index(name))]
    /\ edges = [name \in ChainNodes(n - 1) |-> Direct(ChainNames[Index(name) + 1])]
    /\ start_node = ChainNames[1]

InitChain ==
    /\ \E n \in 1..MAX_STEPS : IsChain(n)
    /\ last_reg = edges
    /\ rewrote = FALSE
    /\ pc = [r \in RunIds |-> "idle"]
    /\ payload = [r \in RunIds |-> NoData]
    /\ state = [r \in RunIds |-> [data |-> NoData, history |-> <<>>]]
    /\ current_node_name = [r \in RunIds |-> Null]
    /\ logs = [r \in RunIds |-> <<>>]
    /\ step_count = [r \in RunIds |-> 0]
    /\ invoked = [r \in RunIds |-> <<>>]
    /\ sink = [r \in RunIds |-> <<>>]
    /\ error = [r \in RunIds |-> NoError]
    /\ RUNS = <<>>
    /\ ws = [r \in RunIds |-> <<>>]
    /\ GRAPHS = preload_demo_graph
    /\ graph_id = [r \in RunIds |-> <<>>]
    /\ reply = NoReply

NextChain ==
    \/ \E r \in RunIds, d \in Payloads : Building /\ Request(r, d)
    \/ Steps

SpecChain == InitChain /\ [][NextChain]_vars

----------------------------------------------------------------------------
(* The REST and websocket handlers around the graph store: main.py:25-110 *)

\* models.py:8-12.  An absent target is Null; an absent mapping and an
\* empty one are both <<>>, create_graph only tests them for truthiness.
EdgeDefinition(source, target, condition, mapping) ==
    [source |-> source, target |-> target, condition |-> condition, mapping |-> mapping]

\* models.py:14-17
GraphCreateRequest(names, edge_defs, entry) ==
    [nodes |-> names, edges |-> edge_defs, start_node |-> entry]

\* split_text -> refine_summary, refine_summary looping on its status
ReqPair ==
    GraphCreateRequest(<<"split_text", "refine_summary">>,
                       << EdgeDefinition("split_text", "refine_summary", Null, <<>>),
                          EdgeDefinition("refine_summary", Null, "status", DemoMapping) >>,
                       "split_text")
\* a node list with a name that is in no registry
ReqUnknown ==
    GraphCreateRequest(<<"split_text", "ghost">>, <<>>, "split_text")
\* registered nodes, an edge to a name that is not a node of the graph
ReqGhostEdge ==
    GraphCreateRequest(<<"split_text">>,
                       << EdgeDefinition("split_text", "ghost", Null, <<>>) >>,
                       "split_text")

CreateRequests == {ReqPair, ReqUnknown, ReqGhostEdge}

\* uuid4() values for new graphs (main.py:40)
NewGraphIds == {"g1"}
\* a graph id no graph was stored under
MissingId == "missing"
AskedGraphIds == {DemoId, MissingId} \cup NewGraphIds

\* the initial_state of the requests to the hosts
HostPayloads == {ShortPayload, BadTextPayload}

\* a loop that skips an unregistered name instead of rejecting the request
RECURSIVE AddNodesSkipUnknown(_, _)
AddNodesSkipUnknown(eng, names) ==
    IF names = <<>>
    THEN [ok |-> TRUE, engine |-> eng]
    ELSE IF Head(names) \notin TOOL_REGISTRY
    THEN AddNodesSkipUnknown(eng, Tail(names))
    ELSE AddNodesSkipUnknown(AddNode(eng, Head(names), Head(names)), Tail(names))

\* main.py:28-31
RECURSIVE AddNodes(_, _)
AddNodes(eng, names) ==
    IF names = <<>>
    THEN [ok |-> TRUE, engine |-> eng]
    ELSE IF Head(names) \notin TOOL_REGISTRY
    THEN [ok |-> FALSE, engine |-> eng]
    ELSE AddNodes(AddNode(eng, Head(names), Head(names)), Tail(names))

\* main.py:33-37
RECURSIVE AddEdges(_, _)
AddEdges(eng, edge_defs) ==
    IF edge_defs = <<>>
    THEN eng
    ELSE LET edge == Head(edge_defs)
             next == IF edge.condition # Null /\ edge.mapping # <<>>
                     THEN AddConditionalEdge(eng, edge.source, edge.condition, edge.mapping)
                     ELSE IF edge.target # Null
                     THEN AddEdge(eng, edge.source, edge.target)
                     ELSE eng
         IN  AddEdges(next, Tail(edge_defs))

Reply(op, code, id, body) == [op |-> op, code |-> code, id |-> id, body |-> body]

hostRunVars == <<pc, payload, state, current_node_name, logs, step_count,
                 invoked, sink, error>>
builderVars == <<nodes, edges, start_node, last_reg, rewrote>>

\* main.py:25-42
create_graph(req) ==
    /\ LET built == AddNodes(NewEngine, req.nodes)
       IN  IF ~built.ok
           THEN /\ reply' = Reply("create", 400, Null, <<req>>)
                /\ GRAPHS' = GRAPHS
           ELSE \E id \in NewGraphIds \ DOMAIN GRAPHS :
                    LET engine == SetEntryPoint(AddEdges(built.engine, req.edges),
                                                req.start_node)
                    IN  /\ GRAPHS' = Put(GRAPHS, id, engine)
                        /\ reply' = Reply("create", 200, id, <<req>>)
    /\ UNCHANGED <<builderVars, hostRunVars, RUNS, ws, graph_id>>

\* main.py:44-52, 65-66
run_graph(r, gid, initial_state) ==
    /\ r \in BatchIds
    /\ pc[r] = "idle"
    /\ IF gid \notin DOMAIN GRAPHS
       THEN /\ reply' = Reply("run", 404, Null, <<>>)
            /\ UNCHANGED <<pc, payload, graph_id, RUNS>>
       ELSE /\ graph_id' = Set(graph_id, r, <<gid>>)
            /\ RUNS' = Put(RUNS, r, NewRun)
            /\ payload' = Set(payload, r, initial_state)
            /\ pc' = Set(pc, r, "init")
            /\ reply' = Reply("run", 200, r, <<>>)
    /\ UNCHANGED <<builderVars, GRAPHS, ws, state, current_node_name, logs,
                   step_count, invoked, sink, error>>

\* main.py:86
NotFoundMsg == Plain("Error: Graph ID not found")

\* main.py:76-96
websocket_run(r, gid, initial_state) ==
    /\ r \in StreamIds
    /\ pc[r] = "idle"
    /\ IF gid \notin DOMAIN GRAPHS
       THEN /\ ws' = Set(ws, r, Append(ws[r], NotFoundMsg))
            /\ pc' = Set(pc, r, "close")
            /\ UNCHANGED <<payload, graph_id>>
       ELSE /\ graph_id' = Set(graph_id, r, <<gid>>)
            /\ ws' = Set(ws, r, Append(ws[r], ConnectedMsg))
            /\ payload' = Set(payload, r, initial_state)
            /\ pc' = Set(pc, r, "init")
    /\ UNCHANGED <<builderVars, GRAPHS, RUNS, reply, state, current_node_name,
                   logs, step_count, invoked, sink, error>>

\* a run id no run was stored under
MissingRun == "missing"

\* main.py:68-72; the handler runs on a worker thread, between any two
\* steps of the event loop
get_run_state(run_id) ==
    /\ reply' = IF run_id \notin DOMAIN RUNS
                THEN Reply("state", 404, run_id, <<>>)
                ELSE Reply("state", 200, run_id, <<RUNS[run_id]>>)
    /\ UNCHANGED <<builderVars, hostRunVars, RUNS, ws, GRAPHS, graph_id>>

\* Requests arrive at any time: graphs are created, runs are started on
\* stored graphs and run states are read while other runs are in progress.
NextHost ==
    \/ \E req \in CreateRequests : create_graph(req)
    \/ \E r \in BatchIds, gid \in AskedGraphIds, d \in HostPayloads : run_graph(r, gid, d)
    \/ \E r \in StreamIds, gid \in AskedGraphIds, d \in HostPayloads : websocket_run(r, gid, d)
    \/ \E run_id \in RunIds \cup {MissingRun} : get_run_state(run_id)
    \/ Steps

SpecHost == Init /\ [][NextHost]_vars

\* The event loop resumes every coroutine that is ready.
FairHost == SpecHost /\ \A r \in RunIds : WF_vars(RunStep(r))

----------------------------------------------------------------------------
(* Runs of the preloaded demo graph: main.py:113-129 *)

\* The texts sent to the demo graph: up to MaxSentences pieces between
\* full stops, each of up to MaxWords words (none for a blank piece), and
\* one text long enough for the step bound to stop its refinement.  The
\* requests also carry no text at all and a "text" that is not a str.
MaxSentences == 2
MaxWords == 3
WordLens == {1, 30}

Sentences == UNION {[1..n -> WordLens] : n \in 0..MaxWords}
Texts == UNION {[1..n -> Sentences] : n \in 0..MaxSentences}
LongText == [i \in 1..(MAX_STEPS \div WordsKept + 1) |->
                [j \in 1..WordsKept |-> SummaryLimit + 1]]

TextPayload(sentences) ==
    [NoData EXCEPT !.text = <<[isstr |-> TRUE, sentences |-> sentences]>>]

DemoPayloads ==
    {TextPayload(t) : t \in Texts \cup {LongText}} \cup {EmptyPayload, BadTextPayload}

\* One request, to either endpoint, for the demo graph
NextDemo ==
    \/ \E r \in BatchIds, d \in DemoPayloads : Building /\ run_graph(r, DemoId, d)
    \/ \E r \in StreamIds, d \in DemoPayloads : Building /\ websocket_run(r, DemoId, d)
    \/ Steps

SpecDemo == Init /\ [][NextDemo]_vars

\* The event loop resumes the request's coroutine whenever it is ready.
FairDemo == SpecDemo /\ WF_vars(Steps)

----------------------------------------------------------------------------
(* Claims *)

\* The positions of a request whose call of run() is over
AfterReturn == {"return", "store_state", "store_logs", "send_state"}
AfterRaise == {"raised", "store_error"}
RunOver(r) == pc[r] \in AfterReturn \cup AfterRaise \cup {"close", "done"}
Raised(r) == error[r] # NoError
Returned(r) == RunOver(r) /\ ~Raised(r)

\* C1: whatever the graph (cycles included) and the initial data, a run
\* never counts more than MAX_STEPS steps, never invokes more than MAX_STEPS
\* nodes, its history never holds more than MAX_STEPS names, and once
\* started it eventually returns or raises.
C1_BoundedAndTerminates ==
    /\ [](\A r \in RunIds : /\ step_count[r] <= MAX_STEPS
                            /\ Len(state[r].history) <= MAX_STEPS
                            /\ Len(invoked[r]) <= MAX_STEPS)
    /\ \A r \in RunIds : (pc[r] = "init") ~> RunOver(r)

\* a run of a cyclic graph that the step bound has stopped
C1_Witness ==
    \E r \in RunIds : /\ Returned(r)
                      /\ step_count[r] = MAX_STEPS
                      /\ current_node_name[r] # Null

Range(seq) == {seq[i] : i \in DOMAIN seq}
Last(seq) == seq[Len(seq)]

\* registry.py:67, 70: what refine_summary leaves under "status"
StatusValues == {"continue", "stop"}

\* The entry node runs refine_summary and its conditional edge selects the
\* entry node again for every status refine_summary produces.
SelfLoopAtEntry ==
    /\ start_node \in DOMAIN nodes
    /\ nodes[start_node] = "refine_summary"
    /\ start_node \in DOMAIN edges
    /\ edges[start_node].type = "conditional"
    /\ edges[start_node].key = "status"
    /\ \A v \in StatusValues : /\ v \in DOMAIN edges[start_node].mapping
                               /\ edges[start_node].mapping[v] = start_node

\* C2: when the entry node A has a conditional edge that selects A for
\* every value A produces, a run (whose sink does not fail) returns without
\* error after exactly MAX_STEPS invocations of A: history is MAX_STEPS
\* copies of A and the log is 'Step 1' .. 'Step 50' then 'Execution Finished'.
C2_SelfLoopRunsFiftyTimes ==
    \A r \in RunIds :
        (SelfLoopAtEntry /\ RunOver(r) /\ error[r] # Disconnect) =>
            /\ Returned(r)
            /\ state[r].history = [i \in 1..MAX_STEPS |-> start_node]
            /\ invoked[r] = [i \in 1..MAX_STEPS |-> start_node]
            /\ logs[r] = [i \in 1..(MAX_STEPS + 1) |->
                             IF i <= MAX_STEPS THEN StepMsg(i, start_node) ELSE FinishMsg]

C2_Witness ==
    \E r \in RunIds : SelfLoopAtEntry /\ pc[r] = "done" /\ Returned(r)

\* The entry node is set and is not a registered node.
EntryMissing == start_node # Null /\ start_node \notin DOMAIN nodes

\* C4 as stated: when the entry node is not in the node mapping, the run
\* fails with the missing-node error with an empty log and nothing
\* delivered to the sink.
C4_Original ==
    \A r \in RunIds :
        (EntryMissing /\ error[r] = NodeNotFound(start_node)) =>
            /\ invoked[r] = <<>>
            /\ logs[r] = <<>>
            /\ sink[r] = <<>>

\* C4 as amended: when the entry node is set and not in the node mapping,
\* the run fails with the missing-node error before any node is invoked;
\* at the failure the log holds exactly the line of step 1 and, in
\* streaming mode, the sink has received exactly that line.
C4_EntryMissingFailsAfterFirstLog ==
    \A r \in RunIds :
        EntryMissing =>
            /\ invoked[r] = <<>>
            /\ state[r].history = <<>>
            /\ RunOver(r) => \/ error[r] = NodeNotFound(start_node)
                             \/ HasCallback(r) /\ error[r] = Disconnect
            /\ error[r] = NodeNotFound(start_node) =>
                   /\ logs[r] = <<StepMsg(1, start_node)>>
                   /\ sink[r] = IF HasCallback(r) THEN <<StepMsg(1, start_node)>> ELSE <<>>

C4_Witness ==
    \E r \in StreamIds :
        EntryMissing /\ pc[r] = "raised" /\ error[r] = NodeNotFound(start_node)

NumSteps(seq) == Cardinality({i \in DOMAIN seq : seq[i].text = "Step"})

\* C5: in streaming mode a run that returns has delivered to the sink
\* exactly its log, len(history)+1 messages; the message of step k is
\* delivered before node k is invoked and node k has returned before the
\* message of step k+1 is delivered.
C5_SinkFollowsLog ==
    \A r \in StreamIds :
        /\ Returned(r) => /\ sink[r] = logs[r]
                          /\ Len(sink[r]) = Len(state[r].history) + 1
        /\ Len(invoked[r]) <= NumSteps(sink[r])
        /\ NumSteps(sink[r]) <= Len(state[r].history) + 1
        /\ pc[r] = "in_node" => /\ Len(sink[r]) = Len(invoked[r])
                                /\ Len(state[r].history) = Len(invoked[r]) - 1
        /\ FinishMsg \in Range(sink[r]) =>
               /\ Last(sink[r]) = FinishMsg
               /\ NumSteps(sink[r]) = Len(sink[r]) - 1
               /\ invoked[r] = state[r].history

C5_Witness ==
    \E r \in StreamIds : Returned(r) /\ Len(state[r].history) >= 2 /\ pc[r] = "done"

\* The value of data[key] is a key of the mapping
InMapping(mapping, data, key) ==
    /\ key \in StrKeys
    /\ data[key] # <<>>
    /\ data[key][1] \in DOMAIN mapping

\* C7 as stated: after a node with a conditional edge (key, mapping) has
\* returned, the next node is mapping[data[key]] when that value is a key of
\* the mapping with a non-null target; otherwise the run ends right after
\* that node, with no further step and no error.
C7_Original ==
    \A r \in RunIds :
        /\ (pc[r] = "loop" /\ step_count[r] > 0) =>
               LET name == Last(state[r].history)
                   data == state[r].data
               IN  (name \in DOMAIN edges /\ edges[name].type = "conditional") =>
                       LET key == edges[name].key
                           mapping == edges[name].mapping
                       IN  current_node_name[r] =
                               IF InMapping(mapping, data, key) /\ mapping[data[key][1]] # Null
                               THEN mapping[data[key][1]]
                               ELSE Null
        /\ error[r] # Unhashable

\* C8: the engine holds one edge rule per source, the rule of the latest
\* registration for that source, whatever the variants involved; and a run
\* that has executed a node whose latest registration is a direct edge
\* proceeds to that edge's target, not to an earlier registration's.
C8_LastRegistrationWins ==
    /\ DOMAIN edges = DOMAIN last_reg
    /\ \A s \in DOMAIN edges : edges[s] = last_reg[s]
    /\ \A r \in RunIds : \A i \in 1..Len(state[r].history) :
           LET name == state[r].history[i]
           IN  (/\ name \in DOMAIN last_reg
                /\ last_reg[name].type = "direct"
                /\ Len(logs[r]) > i) =>
                   logs[r][i + 1] = IF i < MAX_STEPS
                                    THEN StepMsg(i + 1, last_reg[name].target)
                                    ELSE FinishMsg

\* a rule has been replaced by a direct edge and a run has followed it
C8_Witness ==
    /\ rewrote
    /\ \E r \in RunIds :
           /\ Len(logs[r]) >= 2
           /\ state[r].history # <<>>
           /\ state[r].history[1] \in DOMAIN last_reg
           /\ last_reg[state[r].history[1]] = Direct("ghost")
           /\ logs[r][2] = StepMsg(2, "ghost")

\* An edge has selected a name that is not a registered node, within the step bound.
EdgeSelectedMissing(r) ==
    /\ pc[r] \notin {"idle", "init"}
    /\ step_count[r] >= 1
    /\ step_count[r] < MAX_STEPS
    /\ current_node_name[r] # Null
    /\ current_node_name[r] \notin DOMAIN nodes

\* C9: when an edge selects a name that is not in the node mapping and the
\* step bound is not reached, the run fails with 'node not found' at that
\* name: neither it nor any later node is invoked, 'Execution Finished' is
\* neither logged nor delivered, nothing is returned, and the batch host
\* records the run as failed with state null and logs empty.
C9_MissingTargetFails ==
    \A r \in RunIds :
        EdgeSelectedMissing(r) =>
            /\ pc[r] \in {"loop", "deliver", "sleep", "call", "raised",
                          "store_error", "close", "done"}
            /\ invoked[r] = state[r].history
            /\ Len(invoked[r]) = step_count[r]
            /\ FinishMsg \notin Range(logs[r])
            /\ FinishMsg \notin Range(sink[r])
            /\ RunOver(r) => \/ error[r] = NodeNotFound(current_node_name[r])
                             \/ HasCallback(r) /\ error[r] = Disconnect
            /\ r \in BatchIds =>
                   /\ RUNS[r].state = <<>>
                   /\ RUNS[r].logs = <<>>
                   /\ RUNS[r].status \in {"running", "failed"}
                   /\ pc[r] = "done" =>
                          RUNS[r] = [status |-> "failed", state |-> <<>>, logs |-> <<>>,
                                     error |-> <<NodeNotFound(current_node_name[r])>>]

C9_Witness ==
    \E r \in BatchIds : EdgeSelectedMissing(r) /\ pc[r] = "done"

\* C10: when a node invocation raises, the run fails with that error at its
\* caller: the node is not retried, no later node is invoked, the failing
\* node's name is not appended to history, and 'Execution Finished' is
\* neither logged nor delivered.
C10_NodeErrorPropagates ==
    \A r \in RunIds :
        /\ (/\ invoked[r] # <<>>
            /\ pc[r] # "in_node"
            /\ ~NodeApply(nodes[Last(invoked[r])], state[r].data).ok) =>
               error[r] = NodeError(Last(invoked[r]))
        /\ error[r].kind = "NodeError" =>
               /\ pc[r] \in AfterRaise \cup {"close", "done"}
               /\ invoked[r] = Append(state[r].history, error[r].node)
               /\ Len(state[r].history) = step_count[r]
               /\ FinishMsg \notin Range(logs[r])
               /\ FinishMsg \notin Range(sink[r])
               /\ (r \in BatchIds /\ pc[r] = "done") =>
                      RUNS[r] = [status |-> "failed", state |-> <<>>, logs |-> <<>>,
                                 error |-> <<error[r]>>]
               /\ (r \in StreamIds /\ pc[r] \in {"close", "done"}) =>
                      Last(ws[r]) = ErrorMsg(error[r])

C10_Witness ==
    \E r \in BatchIds :
        /\ pc[r] = "done"
        /\ error[r] = NodeError("split_text")
        /\ state[r].history = <<"refine_summary">>

\* C3: the same graph and the same initial data, run through the batch
\* endpoint (no sink) and through the streaming endpoint (a sink that does
\* not fail), end the same way: the same log, the same final data and
\* history, the same error or success, and the batch host stores what the
\* streaming run returned.
C3_SinkIsAnObserver ==
    \A b \in BatchIds, s \in StreamIds :
        (/\ pc[b] = "done" /\ pc[s] = "done"
         /\ payload[b] = payload[s]
         /\ error[s] # Disconnect) =>
            /\ error[b] = error[s]
            /\ logs[b] = logs[s]
            /\ state[b] = state[s]
            /\ step_count[b] = step_count[s]
            /\ invoked[b] = invoked[s]
            /\ Returned(s) => /\ RUNS[b].status = "completed"
                              /\ RUNS[b].state = <<state[s]>>
                              /\ RUNS[b].logs = logs[s]
            /\ Raised(s) => /\ RUNS[b].status = "failed"
                            /\ RUNS[b].error = <<error[s]>>

C3_Witness ==
    \E b \in BatchIds, s \in StreamIds :
        /\ pc[b] = "done" /\ pc[s] = "done"
        /\ Returned(b) /\ Returned(s)
        /\ Len(state[s].history) >= 2
        /\ state[s].data.status = <<"stop">>

\* C6: for a direct-edge chain N1 -> .. -> Nn of n distinct registered
\* nodes (1 <= n <= MAX_STEPS, no edge for Nn, entry N1), a run whose nodes
\* and sink do not fail returns after exactly n steps with history
\* [N1..Nn] and a log of the n step lines and the completion line.
C6_ChainRunsInOrder ==
    LET n == Cardinality(DOMAIN nodes)
    IN  \A r \in RunIds :
        (/\ RunOver(r)
         /\ error[r].kind \notin {"NodeError", "WebSocketDisconnect"}
         /\ n \in 1..MAX_STEPS
         /\ IsChain(n)) =>
            /\ Returned(r)
            /\ step_count[r] = n
            /\ state[r].history = SubSeq(ChainNames, 1, n)
            /\ invoked[r] = SubSeq(ChainNames, 1, n)
            /\ logs[r] = [i \in 1..(n + 1) |->
                             IF i <= n THEN StepMsg(i, ChainNames[i]) ELSE FinishMsg]

C6_Witness ==
    \E r \in RunIds : /\ IsChain(MAX_STEPS)
                      /\ pc[r] = "done"
                      /\ Returned(r)
                      /\ Len(state[r].history) = MAX_STEPS

\* C11: when a delivery to the progress sink fails, the run is aborted: it
\* is over without a result, every invoked node had returned before the
\* failed delivery (the node of the step whose line failed is not invoked),
\* the sink holds the log but its last line, and from then on nothing is
\* delivered, invoked, logged or sent.
C11_SinkFailureAborts ==
    /\ [](\A r \in RunIds :
            error[r] = Disconnect =>
                /\ HasCallback(r)
                /\ pc[r] \in {"raised", "close", "done"}
                /\ ~Returned(r)
                /\ invoked[r] = state[r].history
                /\ logs[r] = Append(sink[r], Last(logs[r]))
                /\ Last(logs[r]).text = "Step" => Len(invoked[r]) = Last(logs[r]).step - 1)
    /\ [][\A r \in RunIds :
            error[r] = Disconnect =>
                /\ error'[r] = Disconnect
                /\ sink'[r] = sink[r]
                /\ invoked'[r] = invoked[r]
                /\ logs'[r] = logs[r]
                /\ state'[r] = state[r]
                /\ ws'[r] = ws[r]]_vars

\* the delivery of a later step's line failed
C11_Witness ==
    \E r \in StreamIds : /\ error[r] = Disconnect
                         /\ pc[r] = "done"
                         /\ Len(invoked[r]) >= 1
                         /\ Last(logs[r]).text = "Step"

\* C13: no step of a run changes the graph definition it executes: from the
\* start of a run to its return or failure the engine's nodes, edges and
\* start_node are what they were.
C13_RunKeepsGraph ==
    [][\A r \in RunIds :
          pc[r] # "idle" =>
              /\ EngineOf(r)' = EngineOf(r)
              /\ UNCHANGED <<nodes, edges, start_node>>]_vars

\* a run over a graph with edges has followed one and is over
C13_Witness ==
    \E r \in RunIds : /\ pc[r] = "done"
                      /\ Len(state[r].history) >= 2
                      /\ state[r].history[1] \in DOMAIN edges

\* C15: with no entry node set, a run executes zero steps and returns: no
\* node is invoked, the state holds the initial data and an empty history,
\* the log is exactly 'Execution Finished', delivered once to the sink of a
\* streaming run.
C15_NoEntryRunsZeroSteps ==
    \A r \in RunIds :
        (start_node = Null /\ pc[r] \notin {"idle", "init"}) =>
            /\ invoked[r] = <<>>
            /\ step_count[r] = 0
            /\ state[r] = [data |-> payload[r], history |-> <<>>]
            /\ error[r] \in {NoError, Disconnect}
            /\ FinishMsg \in Range(logs[r]) => logs[r] = <<FinishMsg>>
            /\ Returned(r) => /\ logs[r] = <<FinishMsg>>
                              /\ sink[r] = IF HasCallback(r) THEN <<FinishMsg>> ELSE <<>>
            /\ (RunOver(r) /\ ~Returned(r)) =>
                   /\ HasCallback(r) /\ error[r] = Disconnect /\ sink[r] = <<>>

C15_Witness ==
    \E r \in StreamIds :
        start_node = Null /\ pc[r] = "done" /\ Returned(r) /\ payload[r] = ShortPayload

\* C16: history is the names of the nodes whose invocation has returned, in
\* order: it is the invoked names less the one still running or failed; at
\* the loop head its length is step_count; and it only ever changes by the
\* append of the current node's name, as that node returns.
C16_HistoryIsCompletedSteps ==
    /\ [](\A r \in RunIds :
            /\ invoked[r] = IF pc[r] = "in_node"
                            THEN Append(state[r].history, current_node_name[r])
                            ELSE IF error[r].kind = "NodeError"
                            THEN Append(state[r].history, error[r].node)
                            ELSE state[r].history
            /\ pc[r] = "loop" => Len(state[r].history) = step_count[r]
            /\ pc[r] \in {"deliver", "sleep", "call"} =>
                   Len(state[r].history) = step_count[r])
    /\ [][\A r \in RunIds :
            state'[r].history # state[r].history =>
                /\ pc[r] = "in_node"
                /\ pc'[r] = "route"
                /\ state'[r].history = Append(state[r].history, current_node_name[r])]_vars

C16_Witness ==
    \E r \in RunIds : /\ pc[r] = "in_node"
                      /\ Len(state[r].history) >= 2
                      /\ state[r].history[1] = state[r].history[2]

\* C17: for a run that returns, the log has one line more than history has
\* names, its i-th line is the step line of number i and node history[i],
\* and its last line, and no other, is 'Execution Finished'.
C17_LogMatchesHistory ==
    \A r \in RunIds :
        Returned(r) =>
            /\ Len(logs[r]) = Len(state[r].history) + 1
            /\ \A i \in 1..Len(state[r].history) :
                   logs[r][i] = StepMsg(i, state[r].history[i])
            /\ Last(logs[r]) = FinishMsg
            /\ \A i \in 1..(Len(logs[r]) - 1) : logs[r][i] # FinishMsg

C17_Witness ==
    \E r \in BatchIds : /\ Returned(r)
                        /\ Len(state[r].history) = 2
                        /\ state[r].history[1] # state[r].history[2]

IsPrefix(p, q) == Len(p) <= Len(q) /\ SubSeq(q, 1, Len(p)) = p

\* C12: whatever the interleaving of the runs in progress, on the same
\* engine or on different ones, each run's log and history grow along the
\* log and history it produces when executed alone, and a run that is over
\* (its sink not having failed) has exactly the state, log and error of its
\* execution alone.
C12_RunsAreIsolated ==
    \A r \in RunIds :
        (graph_id[r] # <<>> /\ pc[r] \notin {"idle", "init"}) =>
            LET alone == Solo(EngineOf(r), payload[r])
            IN  /\ IsPrefix(logs[r], alone.logs)
                /\ IsPrefix(state[r].history, alone.history)
                /\ IsPrefix(sink[r], logs[r])
                /\ (RunOver(r) /\ error[r] # Disconnect) =>
                       /\ error[r] = alone.error
                       /\ logs[r] = alone.logs
                       /\ state[r] = [data |-> alone.data, history |-> alone.history]
                       /\ HasCallback(r) /\ Returned(r) => sink[r] = alone.logs

\* two runs on different engines, both inside a node after a first step
C12_Witness ==
    \E b \in BatchIds, s \in StreamIds :
        /\ pc[b] = "in_node" /\ pc[s] = "in_node"
        /\ graph_id[b] # graph_id[s]
        /\ Len(state[b].history) >= 1
        /\ Len(state[s].history) >= 1

\* the names of a request's node list
Listed(req) == Range(req.nodes)

\* C14: a create_graph request whose node list holds a name that is not in
\* the tool registry is answered 400 and leaves GRAPHS as it was; a request
\* whose names are all registered adds exactly one new graph id; GRAPHS
\* changes in no other way, so every stored graph, and every graph a run
\* executes, has registered nodes only.
C14_CreateGraphValidates ==
    /\ [](/\ \A g \in DOMAIN GRAPHS : DOMAIN GRAPHS[g].nodes \subseteq TOOL_REGISTRY
          /\ \A r \in RunIds : graph_id[r] # <<>> => graph_id[r][1] \in DOMAIN GRAPHS)
    /\ [][(reply'.op = "create" /\ reply' # reply) =>
              LET req == reply'.body[1]
              IN  IF Listed(req) \subseteq TOOL_REGISTRY
                  THEN /\ reply'.code = 200
                       /\ reply'.id \notin DOMAIN GRAPHS
                       /\ DOMAIN GRAPHS' = DOMAIN GRAPHS \cup {reply'.id}
                       /\ \A g \in DOMAIN GRAPHS : GRAPHS'[g] = GRAPHS[g]
                       /\ DOMAIN GRAPHS'[reply'.id].nodes = Listed(req)
                  ELSE /\ reply'.code = 400
                       /\ GRAPHS' = GRAPHS]_vars
    /\ [][GRAPHS' # GRAPHS => (reply'.op = "create" /\ reply'.code = 200)]_vars

\* a request was rejected after another had been accepted
C14_Witness ==
    /\ reply = Reply("create", 400, Null, <<ReqUnknown>>)
    /\ DOMAIN GRAPHS # {DemoId}

\* C18 as stated: whatever get_run_state returns, a record whose status is
\* 'completed' has a state and a log ending with 'Execution Finished', and
\* a record whose status is 'failed' has an error, no state and no logs.
C18_Original ==
    (reply.op = "state" /\ reply.code = 200) =>
        LET record == reply.body[1]
        IN  /\ record.status = "completed" =>
                   /\ record.state # <<>>
                   /\ record.logs # <<>>
                   /\ Last(record.logs) = FinishMsg
            /\ record.status = "failed" =>
                   /\ record.error # <<>>
                   /\ record.state = <<>>
                   /\ record.logs = <<>>

Terminal == {"completed", "failed"}

\* C19: a record of RUNS is created as 'running' by an accepted run_graph
\* request and never removed; its status eventually becomes 'completed' or
\* 'failed' and then never changes; a run_graph request for a graph id that
\* is not in GRAPHS is answered 404 and leaves RUNS as it was.
C19_RunRecordLifecycle ==
    /\ [](\A r \in DOMAIN RUNS : RUNS[r].status \in {"running"} \cup Terminal)
    /\ [][/\ \A r \in DOMAIN RUNS :
                /\ r \in DOMAIN RUNS'
                /\ RUNS[r].status \in Terminal => RUNS'[r].status = RUNS[r].status
          /\ \A r \in DOMAIN RUNS' \ DOMAIN RUNS :
                /\ RUNS'[r] = NewRun
                /\ reply' = Reply("run", 200, r, <<>>)
                /\ graph_id'[r] # <<>>
                /\ graph_id'[r][1] \in DOMAIN GRAPHS
          /\ (reply'.op = "run" /\ reply'.code = 404) => RUNS' = RUNS]_vars
    /\ \A r \in BatchIds :
          (r \in DOMAIN RUNS) ~> (r \in DOMAIN RUNS /\ RUNS[r].status \in Terminal)

\* a run was refused for its graph id, then one was accepted and has failed
C19_Witness ==
    /\ reply.op = "state"
    /\ \E r \in DOMAIN RUNS : /\ RUNS[r].status = "failed"
                              /\ RUNS[r].error # <<>>
                              /\ graph_id[r] # <<DemoId>>

DemoPrefix == <<"split_text", "summarize_chunks", "merge_summaries">>

\* The words of data's current_summary
SummaryWords(data) == Get(data, "current_summary", <<>>)

\* The request's "text" is a str, or the request has none
HasText(data) == Get(data, "text", EmptyStr).isstr

\* C20: a run of the demo graph on a text (its sink not failing) returns
\* with history split_text, summarize_chunks, merge_summaries and then
\* k >= 1 times refine_summary, 3 + k <= MAX_STEPS, and with status 'stop'
\* when fewer than MAX_STEPS steps ran; every refine_summary step leaves
\* current_summary with no more words than before, and with fewer when it
\* had any; and every run that has started comes to its end.
C20_DemoTerminates ==
    /\ [](\A r \in RunIds :
            (/\ graph_id[r] = <<DemoId>> /\ HasText(payload[r])
             /\ RunOver(r) /\ error[r] # Disconnect) =>
                LET history == state[r].history
                IN  /\ Returned(r)
                    /\ Len(history) > Len(DemoPrefix)
                    /\ Len(history) <= MAX_STEPS
                    /\ SubSeq(history, 1, Len(DemoPrefix)) = DemoPrefix
                    /\ \A i \in (Len(DemoPrefix) + 1)..Len(history) :
                           history[i] = "refine_summary"
                    /\ Len(history) < MAX_STEPS => state[r].data.status = <<"stop">>
                    /\ (r \in BatchIds /\ pc[r] = "done") => RUNS[r].status = "completed")
    /\ [][\A r \in RunIds :
            (/\ graph_id[r] = <<DemoId>>
             /\ pc[r] = "in_node" /\ pc'[r] = "route"
             /\ current_node_name[r] = "refine_summary") =>
                LET before == Len(SummaryWords(state[r].data))
                    after == Len(SummaryWords(state'[r].data))
                IN  /\ after <= before
                    /\ before > 0 => after < before]_vars
    /\ \A r \in RunIds : (pc[r] = "init") ~> RunOver(r)

\* a text whose summary took five refinements to come under the limit
C20_Witness ==
    \E r \in RunIds : /\ graph_id[r] = <<DemoId>>
                      /\ pc[r] = "done"
                      /\ Returned(r)
                      /\ Len(state[r].history) = Len(DemoPrefix) + 5
                      /\ Len(SummaryWords(state[r].data)) = 1
                      /\ state[r].data.status = <<"stop">>

====
